---- MODULE Spec2Model ----
(***************************************************************************)
(* Model of the block scanner of aelf-block-scan (src/src/index.js):       *)
(* class Scanner with its phases INIT -> MISSING -> GAP -> LOOP, the       *)
(* bounded-concurrency batch queries and mergeResult.                      *)
(***************************************************************************)
EXTENDS Integers, Sequences, FiniteSets, TLC

VARIABLES
  config,          \* this.config
  currentPhase,    \* this.currentPhase
  currentQueries,  \* this.currentQueries
  lastBestHeight,  \* this.lastBestHeight: <<>> is null, <<n>> the number n
  lastLoopResult,  \* this.lastLoopResult
  loopTimes,       \* this.loopTimes
  scheduler,       \* this.scheduler: the Scheduler instance in use
  dbOperator,      \* this.dbOperator: the DBBaseOperation instance in use
  runs,            \* the activations of start(): position and locals
  timers,          \* the Scheduler instances: callback, timer and tick in flight
  status,          \* the status of the node when it was last read
  log,             \* the calls each activation and each Scheduler's ticks made on
                   \* the collaborators, in order
  merger,          \* a call of mergeResult on its own: arguments and result
  fetcher          \* a call of queryBlockAndTxs on its own: groups in flight

vars == <<config, currentPhase, currentQueries, lastBestHeight, lastLoopResult,
          loopTimes, scheduler, dbOperator, runs, timers, status, log,
          merger, fetcher>>

(***************************************************************************)
(* Bounds of the model                                                     *)
(***************************************************************************)
MaxHeight == 7
MaxLoopTimes == 2
MaxMergeHeight == 3
MaxMergeLen == 2
MaxFetch == 4
MaxLimit == 2

(***************************************************************************)
(* constants.QUERY_TYPE                                                    *)
(***************************************************************************)
INIT == "init"
MISSING == "missing"
GAP == "gap"
LOOP == "loop"
ERROR == "error"

(***************************************************************************)
(* JavaScript values                                                       *)
(***************************************************************************)
Null == <<>>
Num(n) == <<n>>
\* the truthiness of a number-or-null: null and 0 are falsy
Truthy(v) == v # Null /\ v[1] # 0
\* ToNumber of a number-or-null, as Math.max and the arithmetic apply it
ToNumber(v) == IF v = Null THEN 0 ELSE v[1]
Max(a, b) == IF a >= b THEN a ELSE b
Min(a, b) == IF a <= b THEN a ELSE b

\* Math.ceil(num / den) for num >= 0, den > 0
Ceil(num, den) == IF num % den = 0 THEN num \div den ELSE (num \div den) + 1

\* Array.prototype.slice(from, to): the indices are 0-based and clamped
slice(arr, from, to) ==
  LET lo == Min(Max(from, 0), Len(arr))
      hi == Min(Max(to, 0), Len(arr))
  IN IF hi <= lo THEN <<>> ELSE SubSeq(arr, lo + 1, hi)

\* the decimal string of a height, as the node reports it
RECURSIVE ToDigits(_)
ToDigits(n) == IF n < 10 THEN <<n>> ELSE Append(ToDigits(n \div 10), n % 10)

\* parseInt(s, 10) of a decimal string
RECURSIVE parseInt(_)
parseInt(s) ==
  IF Len(s) = 0 THEN 0
  ELSE 10 * parseInt(SubSeq(s, 1, Len(s) - 1)) + s[Len(s)]

(***************************************************************************)
(* What the node returns for one height (this.query.queryTransactionsBy-   *)
(* Height): the block carries the requested height, its transactions carry *)
(* the block number; at is the loop in which the height was fetched.       *)
(***************************************************************************)
Block(h, at) == [Header |-> [Height |-> ToDigits(h)], at |-> at]
Tx(h, at, n) == [BlockNumber |-> h, at |-> at, index |-> n]
TxCount(h) == 1 + (h % 2)
Transactions(h, at) == [n \in 1..TxCount(h) |-> Tx(h, at, n)]
queryTransactionsByHeight(h, at) ==
  [blockInfo |-> Block(h, at), transactions |-> Transactions(h, at)]

HeightOf(block) == parseInt(block.Header.Height)
Heights(blocks) == [k \in 1..Len(blocks) |-> HeightOf(blocks[k])]

(***************************************************************************)
(* Scanner.mergeResult                                                     *)
(***************************************************************************)
\* the retention test of the forEach callback
RetainedStale(Height, LIBHeight, lastBest) ==
  Height <= lastBest
RetainedMutant(Height, LIBHeight, lastBest) ==
  Height >= LIBHeight /\ Height <= lastBest
Retained(Height, LIBHeight, lastBest) ==
  Height > LIBHeight /\ Height <= lastBest

\* the forEach over this.lastLoopResult.blocks, pushing block and txs[index]
RECURSIVE forEachLast(_, _, _, _, _)
forEachLast(last, index, LIBHeight, lastBest, acc) ==
  IF index > Len(last.blocks) THEN acc
  ELSE LET block == last.blocks[index]
           Height == parseInt(block.Header.Height)
       IN forEachLast(last, index + 1, LIBHeight, lastBest,
            IF Retained(Height, LIBHeight, ToNumber(lastBest))
            THEN [lastResultBlocks |-> Append(acc.lastResultBlocks, block),
                  lastResultTxs |-> Append(acc.lastResultTxs, last.txs[index])]
            ELSE acc)

mergeResult(last, results, preHeightsLength, afterHeightsLength, LIBHeight, lastBest) ==
  IF Len(last.blocks) = 0 THEN results
  ELSE
    LET preResultBlocks == slice(results.blocks, 0, preHeightsLength)
        afterResultBlocks == slice(results.blocks, preHeightsLength, Len(results.blocks))
        preResultTxs == slice(results.txs, 0, preHeightsLength)
        afterResultTxs == slice(results.txs, preHeightsLength, Len(results.txs))
        kept == forEachLast(last, 1, LIBHeight, lastBest,
                  [lastResultBlocks |-> <<>>, lastResultTxs |-> <<>>])
    IN [blocks |-> preResultBlocks \o kept.lastResultBlocks \o afterResultBlocks,
        txs |-> preResultTxs \o kept.lastResultTxs \o afterResultTxs,
        type |-> results.type]


(***************************************************************************)
(* defaultOptions, and the options the scanner is constructed with         *)
(***************************************************************************)
\* loopCoef is 0.6, kept as the fraction 6/10
defaultOptions ==
  [interval |-> 4000,
   concurrentQueryLimit |-> 40,
   startHeight |-> 1,
   missingHeightList |-> <<>>,
   scanMode |-> "all",
   listeners |-> <<>>,
   maxInsert |-> 200,
   minedSpeed |-> 2,
   loopCoef |-> [num |-> 6, den |-> 10]]

Listeners == <<[tag |-> "A"], [tag |-> "B"]>>

\* the options the scanner is constructed with
Options ==
  {[defaultOptions EXCEPT !.maxInsert = 3, !.concurrentQueryLimit = 2],
   [defaultOptions EXCEPT !.interval = 1000, !.startHeight = 2, !.maxInsert = 2,
                          !.concurrentQueryLimit = 2,
                          !.missingHeightList = <<5, 3, 8>>],
   [defaultOptions EXCEPT !.interval = 1000, !.startHeight = 4, !.maxInsert = 3,
                          !.scanMode = "listener", !.concurrentQueryLimit = 2,
                          !.listeners = Listeners, !.missingHeightList = <<4>>],
   [defaultOptions EXCEPT !.scanMode = "other"]}

\* Math.ceil(interval * minedSpeed * loopCoef / 1000)
SkipThreshold(cfg) ==
  Ceil(cfg.interval * cfg.minedSpeed * cfg.loopCoef.num, 1000 * cfg.loopCoef.den)

(***************************************************************************)
(* The node: this.query.chainStatus() and Scanner.getHeight                *)
(***************************************************************************)
ChainStatus(lib, best) ==
  [BestChainHeight |-> ToDigits(best),
   LastIrreversibleBlockHeight |-> ToDigits(lib)]

\* what the node can report next: neither height goes back and the LIB height
\* is at most the best height
Statuses ==
  {ChainStatus(p[1], p[2]) :
     p \in {q \in (1..MaxHeight) \X (1..MaxHeight) :
              /\ q[1] >= parseInt(status.LastIrreversibleBlockHeight)
              /\ q[2] >= parseInt(status.BestChainHeight)
              /\ q[1] <= q[2]}}

getHeight(st) ==
  [height |-> parseInt(st.BestChainHeight),
   LIBHeight |-> parseInt(st.LastIrreversibleBlockHeight)]

(***************************************************************************)
(* Scanner.queryBlockAndTxs and the two batch queries, as the value they   *)
(* return when every query of every group has been answered                *)
(***************************************************************************)
\* the node's answer to queryBlocksAndTxsByBloom: tags is the block's scanTags,
\* txTags the scanTags of each of its transactions
BloomAnswer(h, tags, txTags) ==
  [block |-> [Header |-> [Height |-> ToDigits(h)], scanTags |-> tags],
   transactions |-> [n \in 1..Len(txTags) |-> [index |-> n, scanTags |-> txTags[n]]]]
NoAnswer == [none |-> TRUE]
HasBlock(v) == "block" \in DOMAIN v

includes(arr, x) == \E k \in 1..Len(arr) : arr[k] = x

\* heights.slice(i, i + concurrentQueryLimit): the group queried in parallel
heightsLimitedMutant(heights, i, cfg) == slice(heights, i, i + cfg.concurrentQueryLimit + 1)
heightsLimited(heights, i, cfg) == slice(heights, i, i + cfg.concurrentQueryLimit)

\* tags.reduce(...): one empty bucket per listener tag
tagsObj(listeners) ==
  [tag \in {listeners[k].tag : k \in 1..Len(listeners)} |-> [blocks |-> <<>>]]

\* the block pushed to the bucket of tag
TaggedBlockMutant(v, tag) ==
  [Header |-> v.block.Header, scanTags |-> v.block.scanTags,
   transactionList |-> v.transactions]
TaggedBlock(v, tag) ==
  LET HasTag(tx) == includes(tx.scanTags, tag)
  IN [Header |-> v.block.Header, scanTags |-> v.block.scanTags,
      transactionList |-> SelectSeq(v.transactions, HasTag)]

\* for (const tag of scanTags) acc[tag].blocks.push(...)
RECURSIVE pushTags(_, _, _)
pushTags(acc, v, k) ==
  IF k > Len(v.block.scanTags) THEN acc
  ELSE LET tag == v.block.scanTags[k]
       IN pushTags([acc EXCEPT ![tag].blocks = Append(@, TaggedBlock(v, tag))], v, k + 1)

\* results.filter(v => v && v.block).reduce(...)
RECURSIVE reduceResults(_, _, _)
reduceResults(acc, results, k) ==
  IF k > Len(results) THEN acc
  ELSE reduceResults(IF HasBlock(results[k]) THEN pushTags(acc, results[k], 1) ELSE acc,
                     results, k + 1)

\* answers[k] is the node's answer for heights[k]
queryBlockAndTxsWithBloom(heights, type, cfg, answers) ==
  [largestHeight |-> IF Len(heights) > 0 THEN heights[Len(heights)]
                     ELSE cfg.startHeight - 1,
   results |-> reduceResults(tagsObj(cfg.listeners), answers, 1),
   type |-> type]

\* answers[k] is the node's answer for heights[k]
queryAllBlocksAndTxs(heights, type, answers) ==
  [blocks |-> [k \in 1..Len(answers) |-> answers[k].blockInfo],
   txs |-> [k \in 1..Len(answers) |-> answers[k].transactions],
   type |-> type]

\* the content of the chain the scanner runs against: the tags of a block
\* and of its transactions
ChainBloom(h) ==
  IF h % 3 = 0 THEN BloomAnswer(h, <<"A", "B">>, <<<<"A">>, <<"B">>>>)
  ELSE IF h % 3 = 1 THEN BloomAnswer(h, <<"B">>, <<<<"B">>, <<>>>>)
  ELSE BloomAnswer(h, <<>>, <<>>)

ValidMode(cfg) == cfg.scanMode \in {"all", "listener"}

queryBlockAndTxs(heights, type, cfg, at) ==
  IF cfg.scanMode = "all"
  THEN queryAllBlocksAndTxs(heights, type,
         [k \in 1..Len(heights) |-> queryTransactionsByHeight(heights[k], at)])
  ELSE queryBlockAndTxsWithBloom(heights, type, cfg,
         [k \in 1..Len(heights) |-> ChainBloom(heights[k])])

(***************************************************************************)
(* The state after new Scanner(dbOperator, options)                        *)
(***************************************************************************)
MaxRestarts == 1
Ids == 0..MaxRestarts

NoRun == [pc |-> "new", i |-> 0, currentHeight |-> 0, bestHeight |-> 0,
          heights |-> <<>>, error |-> ""]
\* new Scheduler({interval}); outcome is how its last tick ended and failed
\* whether a tick of it ever rejected
NoTimer == [callback |-> FALSE, timer |-> FALSE, pc |-> "idle", n |-> 0,
            currentHeight |-> 0, LIBHeight |-> 0, preLen |-> 0, afterLen |-> 0,
            heights |-> <<>>, result |-> <<>>, outcome |-> "", failed |-> FALSE]
EmptyResult == [blocks |-> <<>>, txs |-> <<>>]
Idle == [pc |-> "off"]

Event(op, on, arg) == [op |-> op, on |-> on, arg |-> arg]
\* by (<<"start", r>> or <<"tick", t>>) makes the calls events
Logged(by, events) == log' = [log EXCEPT ![by[1]][by[2]] = @ \o events]

\* Scanner.makeConfig: the fields it sets, for the options opts
makeConfig(opts, db, sched) ==
  /\ currentPhase' = INIT
  /\ config' = opts
  /\ scheduler' = sched
  /\ dbOperator' = db
  /\ currentQueries' = opts.startHeight
  /\ lastBestHeight' = Null
  /\ lastLoopResult' = EmptyResult
  /\ loopTimes' = 0

Constructed(opts, lib) ==
  /\ config \in opts
  /\ currentPhase = INIT
  /\ scheduler = 0
  /\ dbOperator = 0
  /\ currentQueries = config.startHeight
  /\ lastBestHeight = Null
  /\ lastLoopResult = EmptyResult
  /\ loopTimes = 0
  /\ runs = [r \in Ids |-> NoRun]
  /\ timers = [t \in Ids |-> NoTimer]
  /\ status = ChainStatus(lib, lib)
  /\ log = [start |-> [r \in Ids |-> <<>>], tick |-> [t \in Ids |-> <<>>]]

(***************************************************************************)
(* Scanner.start, queryMissingHeight, queryGapHeight and queryInLoop: one  *)
(* action per await of the activation r of start()                         *)
(***************************************************************************)
\* the heights of the chunk of queryMissingHeight that starts at i
missingChunkMutant(cfg, i) == slice(cfg.missingHeightList, i, i + cfg.maxInsert + 1)
missingChunk(cfg, i) == slice(cfg.missingHeightList, i, i + cfg.maxInsert)

\* new Array(maxInsert).fill(1).map(...).filter(v => v <= currentHeight)
gapChunk(cfg, i, currentHeight) ==
  LET all == [index \in 1..cfg.maxInsert |-> cfg.startHeight + i + (index - 1)]
      InGap(v) == v <= currentHeight
  IN SelectSeq(all, InGap)

\* the call of queryBlockAndTxs: an invalid scan mode throws before any query
logQuery(heights) ==
  IF ValidMode(config) THEN <<Event("query", 0, heights)>> ELSE <<>>

\* start() up to its first await: dbOperator.init()
Start(r) ==
  /\ r = 0 /\ scheduler = 0
  /\ runs[r].pc = "new"
  /\ runs' = [runs EXCEPT ![r].pc = "init"]
  /\ Logged(<<"start", r>>, <<Event("init", dbOperator, <<>>)>>)
  /\ UNCHANGED <<config, currentPhase, currentQueries, lastBestHeight, lastLoopResult,
                 loopTimes, scheduler, dbOperator, timers, status, merger, fetcher>>

\* init() is done: phase MISSING, the first chunk of missing heights is queried
InitDone(r) ==
  /\ runs[r].pc = "init"
  /\ currentPhase' = MISSING
  /\ LET heights == missingChunk(config, 0)
     IN /\ runs' = [runs EXCEPT ![r].pc = "missQuery", ![r].i = 0, ![r].heights = heights]
        /\ Logged(<<"start", r>>, logQuery(heights))
  /\ UNCHANGED <<config, currentQueries, lastBestHeight, lastLoopResult,
                 loopTimes, scheduler, dbOperator, timers, status, merger, fetcher>>

\* the missing chunk is fetched: it is passed to dbOperator.insert
MissQueryDone(r) ==
  /\ runs[r].pc = "missQuery"
  /\ ValidMode(config)
  /\ LET maxInsertResults == queryBlockAndTxs(runs[r].heights, MISSING, config, 0)
     IN Logged(<<"start", r>>, <<Event("insert", dbOperator, maxInsertResults)>>)
  /\ runs' = [runs EXCEPT ![r].pc = "missInsert"]
  /\ UNCHANGED <<config, currentPhase, currentQueries, lastBestHeight, lastLoopResult,
                 loopTimes, scheduler, dbOperator, timers, status, merger, fetcher>>

\* the insert is done: the next chunk (i <= length), or phase GAP and the
\* first getHeight of queryGapHeight
MissInsertDone(r) ==
  /\ runs[r].pc = "missInsert"
  /\ LET i == runs[r].i + config.maxInsert
     IN IF i <= Len(config.missingHeightList)
        THEN LET heights == missingChunk(config, i)
             IN /\ runs' = [runs EXCEPT ![r].pc = "missQuery", ![r].i = i,
                                         ![r].heights = heights]
                /\ Logged(<<"start", r>>, logQuery(heights))
                /\ UNCHANGED currentPhase
        ELSE /\ currentPhase' = GAP
             /\ runs' = [runs EXCEPT ![r].pc = "gapStatus", ![r].i = 0, ![r].heights = <<>>]
             /\ UNCHANGED log
  /\ UNCHANGED <<config, currentQueries, lastBestHeight, lastLoopResult,
                 loopTimes, scheduler, dbOperator, timers, status, merger, fetcher>>

\* queryInLoop: setCallback and startTimer on this.scheduler
queryInLoopMutant == timers' = [timers EXCEPT ![scheduler].callback = TRUE]
queryInLoop == timers' = [timers EXCEPT ![scheduler].callback = TRUE,
                                        ![scheduler].timer = TRUE]

\* the first status of queryGapHeight: an empty gap returns, else chunk 0
GapStatus(r) ==
  /\ runs[r].pc = "gapStatus"
  /\ \E st \in Statuses :
       LET h == getHeight(st)
           currentHeight == h.LIBHeight
           bestHeight == h.height
       IN /\ status' = st
          /\ IF currentHeight <= config.startHeight
             THEN /\ currentPhase' = LOOP
                  /\ queryInLoop
                  /\ runs' = [runs EXCEPT ![r].pc = "resolved"]
                  /\ UNCHANGED log
             ELSE LET heights == gapChunk(config, 0, currentHeight)
                  IN /\ runs' = [runs EXCEPT ![r].pc = "gapQuery", ![r].i = 0,
                                              ![r].currentHeight = currentHeight,
                                              ![r].bestHeight = bestHeight,
                                              ![r].heights = heights]
                     /\ Logged(<<"start", r>>, logQuery(heights))
                     /\ UNCHANGED <<currentPhase, timers>>
  /\ UNCHANGED <<config, currentQueries, lastBestHeight, lastLoopResult,
                 loopTimes, scheduler, dbOperator, merger, fetcher>>

\* the gap chunk is fetched: tagged with LIBHeight and bestHeight and inserted
GapQueryDone(r) ==
  /\ runs[r].pc = "gapQuery"
  /\ ValidMode(config)
  /\ LET fetched == queryBlockAndTxs(runs[r].heights, GAP, config, 0)
         maxInsertResults ==
           [f \in DOMAIN fetched \cup {"LIBHeight", "bestHeight"} |->
              IF f = "LIBHeight" THEN runs[r].currentHeight
              ELSE IF f = "bestHeight" THEN runs[r].bestHeight
              ELSE fetched[f]]
     IN Logged(<<"start", r>>, <<Event("insert", dbOperator, maxInsertResults)>>)
  /\ runs' = [runs EXCEPT ![r].pc = "gapInsert"]
  /\ UNCHANGED <<config, currentPhase, currentQueries, lastBestHeight, lastLoopResult,
                 loopTimes, scheduler, dbOperator, timers, status, merger, fetcher>>

\* the insert is done: getHeight is called again
GapInsertDone(r) ==
  /\ runs[r].pc = "gapInsert"
  /\ runs' = [runs EXCEPT ![r].pc = "gapStatus2"]
  /\ UNCHANGED <<config, currentPhase, currentQueries, lastBestHeight, lastLoopResult,
                 loopTimes, scheduler, dbOperator, timers, status, log, merger, fetcher>>

\* the refreshed status: the loop goes on while i <= leftHeights, else the
\* cursor is set, phase LOOP, and the timer is started
GapStatus2(r) ==
  /\ runs[r].pc = "gapStatus2"
  /\ \E st \in Statuses :
       LET currentHeight == getHeight(st).LIBHeight
           leftHeights == currentHeight - config.startHeight
           i == runs[r].i + config.maxInsert
       IN /\ status' = st
          /\ IF i <= leftHeights
             THEN LET heights == gapChunk(config, i, currentHeight)
                  IN /\ runs' = [runs EXCEPT ![r].pc = "gapQuery", ![r].i = i,
                                              ![r].currentHeight = currentHeight,
                                              ![r].heights = heights]
                     /\ Logged(<<"start", r>>, logQuery(heights))
                     /\ UNCHANGED <<currentPhase, currentQueries, lastBestHeight, timers>>
             ELSE /\ currentQueries' = currentHeight
                  /\ lastBestHeight' = Num(runs[r].bestHeight)
                  /\ currentPhase' = LOOP
                  /\ queryInLoop
                  /\ runs' = [runs EXCEPT ![r].pc = "resolved", ![r].i = i,
                                           ![r].currentHeight = currentHeight]
                  /\ UNCHANGED log
  /\ UNCHANGED <<config, lastLoopResult, loopTimes, scheduler, dbOperator, merger, fetcher>>

\* what the await the activation is at fails with
Failure(pc) ==
  CASE pc = "init" -> "init failed"
    [] pc \in {"missQuery", "gapQuery"} ->
         IF ValidMode(config) THEN "query failed" ELSE "Invalid scan mode"
    [] pc \in {"missInsert", "gapInsert"} -> "insert failed"
    [] OTHER -> "chainStatus failed"

\* the catch of start(): phase ERROR, endTimer, destroy, and the error rethrown
CatchMutant(r) ==
  /\ runs[r].pc \in {"init", "missQuery", "missInsert", "gapStatus", "gapQuery",
                     "gapInsert", "gapStatus2"}
  /\ currentPhase' = ERROR
  /\ Logged(<<"start", r>>, <<Event("destroy", dbOperator, <<>>)>>)
  /\ runs' = [runs EXCEPT ![r].pc = "rejected", ![r].error = Failure(runs[r].pc)]
  /\ UNCHANGED <<config, currentQueries, lastBestHeight, lastLoopResult, timers,
                 loopTimes, scheduler, dbOperator, status, merger, fetcher>>
Catch(r) ==
  /\ runs[r].pc \in {"init", "missQuery", "missInsert", "gapStatus", "gapQuery",
                     "gapInsert", "gapStatus2"}
  /\ currentPhase' = ERROR
  /\ timers' = [timers EXCEPT ![scheduler].timer = FALSE]
  /\ Logged(<<"start", r>>, <<Event("endTimer", scheduler, <<>>),
                              Event("destroy", dbOperator, <<>>)>>)
  /\ runs' = [runs EXCEPT ![r].pc = "rejected", ![r].error = Failure(runs[r].pc)]
  /\ UNCHANGED <<config, currentQueries, lastBestHeight, lastLoopResult,
                 loopTimes, scheduler, dbOperator, status, merger, fetcher>>

(***************************************************************************)
(* The callback of queryInLoop, run by the Scheduler instance t: one       *)
(* action per await of the tick                                            *)
(***************************************************************************)
\* the test that ends the tick early ("jump this loop")
SkipMutant(cfg, lastBest, currentHeight) ==
  /\ Truthy(lastBest)
  /\ currentHeight - ToNumber(lastBest) < SkipThreshold(cfg)
Skip(cfg, lastBest, currentHeight) ==
  /\ Truthy(lastBest)
  /\ currentHeight - ToNumber(lastBest) <= SkipThreshold(cfg)

\* new Array(heightsLength < 0 ? 0 : heightsLength).fill(1).map(...)
loopHeights(queries, currentHeight) ==
  LET heightsLength == currentHeight - queries
  IN [index \in 1..(IF heightsLength < 0 THEN 0 ELSE heightsLength) |-> queries + index]

LIBHeightsOfMutant(heights, LIBHeight) ==
  LET Final(height) == height < LIBHeight
  IN SelectSeq(heights, Final)
LIBHeightsOf(heights, LIBHeight) ==
  LET Final(height) == height <= LIBHeight
  IN SelectSeq(heights, Final)

bestHeightsOfMutant(heights, LIBHeight, lastBest) ==
  LET Fresh(height) == height >= Max(ToNumber(lastBest), LIBHeight)
  IN SelectSeq(heights, Fresh)
bestHeightsOf(heights, LIBHeight, lastBest) ==
  LET Fresh(height) == height > Max(ToNumber(lastBest), LIBHeight)
  IN SelectSeq(heights, Fresh)

\* the Scheduler fires: loopTimes++ and the call of getHeight
TickStart(t) ==
  /\ timers[t].timer /\ timers[t].callback
  /\ timers[t].pc = "idle"
  /\ loopTimes < MaxLoopTimes
  /\ loopTimes' = loopTimes + 1
  /\ timers' = [timers EXCEPT ![t].pc = "status", ![t].n = loopTimes + 1,
                                ![t].outcome = ""]
  /\ UNCHANGED <<config, currentPhase, currentQueries, lastBestHeight, lastLoopResult,
                 scheduler, dbOperator, runs, status, log, merger, fetcher>>

\* the status is read: the tick is skipped, or the heights are queried
TickStatus(t) ==
  /\ timers[t].pc = "status"
  /\ \E st \in Statuses :
       LET h == getHeight(st)
           currentHeight == h.height
           LIBHeight == h.LIBHeight
           heights == loopHeights(currentQueries, currentHeight)
           LIBHeights == LIBHeightsOf(heights, LIBHeight)
           bestHeights == bestHeightsOf(heights, LIBHeight, lastBestHeight)
           queried == IF config.scanMode = "all" THEN LIBHeights \o bestHeights
                      ELSE heights
       IN /\ status' = st
          /\ IF Skip(config, lastBestHeight, currentHeight)
             THEN /\ timers' = [timers EXCEPT ![t].pc = "idle", ![t].outcome = "skipped"]
                  /\ UNCHANGED log
             ELSE IF ValidMode(config)
             THEN /\ timers' = [timers EXCEPT ![t].pc = "query",
                                              ![t].currentHeight = currentHeight,
                                              ![t].LIBHeight = LIBHeight,
                                              ![t].preLen = Len(LIBHeights),
                                              ![t].afterLen = Len(bestHeights),
                                              ![t].heights = queried]
                  /\ Logged(<<"tick", t>>, logQuery(queried))
             ELSE \* throw new Error('Invalid scan mode'): the callback rejects
                  /\ timers' = [timers EXCEPT ![t].pc = "idle", ![t].outcome = "failed",
                                                   ![t].failed = TRUE]
                  /\ UNCHANGED log
  /\ UNCHANGED <<config, currentPhase, currentQueries, lastBestHeight, lastLoopResult,
                 loopTimes, scheduler, dbOperator, runs, merger, fetcher>>

\* the heights are fetched: merged in mode all, tagged, and inserted
TickQueryDoneMutant(t) ==
  /\ timers[t].pc = "query"
  /\ LET fetched == queryBlockAndTxs(timers[t].heights, LOOP, config, timers[t].n)
         merged == IF config.scanMode = "all"
                   THEN mergeResult(lastLoopResult, fetched, timers[t].preLen,
                                    timers[t].afterLen, timers[t].LIBHeight, lastBestHeight)
                   ELSE fetched
         loopHeightsResult ==
           [f \in DOMAIN merged \cup {"LIBHeight", "bestHeight"} |->
              IF f = "LIBHeight" THEN timers[t].LIBHeight
              ELSE IF f = "bestHeight" THEN timers[t].currentHeight
              ELSE merged[f]]
     IN /\ Logged(<<"tick", t>>, <<Event("insert", dbOperator, loopHeightsResult)>>)
        /\ timers' = [timers EXCEPT ![t].pc = "insert", ![t].result = loopHeightsResult]
        /\ lastLoopResult' = IF config.scanMode = "all" THEN loopHeightsResult
                              ELSE lastLoopResult
  /\ UNCHANGED <<config, currentPhase, currentQueries, lastBestHeight,
                 loopTimes, scheduler, dbOperator, runs, status, merger, fetcher>>
TickQueryDone(t) ==
  /\ timers[t].pc = "query"
  /\ LET fetched == queryBlockAndTxs(timers[t].heights, LOOP, config, timers[t].n)
         merged == IF config.scanMode = "all"
                   THEN mergeResult(lastLoopResult, fetched, timers[t].preLen,
                                    timers[t].afterLen, timers[t].LIBHeight, lastBestHeight)
                   ELSE fetched
         loopHeightsResult ==
           [f \in DOMAIN merged \cup {"LIBHeight", "bestHeight"} |->
              IF f = "LIBHeight" THEN timers[t].LIBHeight
              ELSE IF f = "bestHeight" THEN timers[t].currentHeight
              ELSE merged[f]]
     IN /\ Logged(<<"tick", t>>, <<Event("insert", dbOperator, loopHeightsResult)>>)
        /\ timers' = [timers EXCEPT ![t].pc = "insert", ![t].result = loopHeightsResult]
  /\ UNCHANGED <<config, currentPhase, currentQueries, lastBestHeight, lastLoopResult,
                 loopTimes, scheduler, dbOperator, runs, status, merger, fetcher>>

\* the insert is done: the cursor moves
TickInsertDone(t) ==
  /\ timers[t].pc = "insert"
  /\ lastLoopResult' = IF config.scanMode = "all" THEN timers[t].result ELSE lastLoopResult
  /\ currentQueries' = timers[t].LIBHeight
  /\ lastBestHeight' = Num(timers[t].currentHeight)
  /\ timers' = [timers EXCEPT ![t] = [NoTimer EXCEPT !.callback = timers[t].callback,
                                                     !.timer = timers[t].timer,
                                                     !.outcome = "inserted",
                                                     !.failed = timers[t].failed]]
  /\ UNCHANGED <<config, currentPhase, loopTimes, scheduler, dbOperator, runs,
                 status, log, merger, fetcher>>

\* getHeight, the query or the insert of the tick fails: the callback rejects
\* inside the Scheduler, which may or may not fire again
TickFail(t) ==
  /\ timers[t].pc \in {"status", "query", "insert"}
  /\ \E again \in BOOLEAN :
       timers' = [timers EXCEPT ![t] = [NoTimer EXCEPT !.callback = timers[t].callback,
                                                       !.timer = timers[t].timer /\ again,
                                                       !.outcome = "failed",
                                                       !.failed = TRUE]]
  /\ UNCHANGED <<config, currentPhase, currentQueries, lastBestHeight, lastLoopResult,
                 loopTimes, scheduler, dbOperator, runs, status, log, merger, fetcher>>

(***************************************************************************)
(* Scanner.restart: makeConfig, then start() up to its first await         *)
(***************************************************************************)
Restart ==
  /\ scheduler < MaxRestarts
  /\ \E db \in {dbOperator, scheduler + 1} :
       /\ makeConfig(config, db, scheduler + 1)
       /\ Logged(<<"start", scheduler + 1>>, <<Event("init", db, <<>>)>>)
  /\ runs' = [runs EXCEPT ![scheduler + 1].pc = "init"]
  /\ UNCHANGED <<timers, status, merger, fetcher>>

Next ==
  \/ \E r \in Ids : Start(r)
  \/ \E r \in Ids : InitDone(r)
  \/ \E r \in Ids : MissQueryDone(r)
  \/ \E r \in Ids : MissInsertDone(r)
  \/ \E r \in Ids : GapStatus(r)
  \/ \E r \in Ids : GapQueryDone(r)
  \/ \E r \in Ids : GapInsertDone(r)
  \/ \E r \in Ids : GapStatus2(r)
  \/ \E r \in Ids : Catch(r)
  \/ \E t \in Ids : TickStart(t)
  \/ \E t \in Ids : TickStatus(t)
  \/ \E t \in Ids : TickQueryDone(t)
  \/ \E t \in Ids : TickInsertDone(t)
  \/ \E t \in Ids : TickFail(t)

\* one run of start(), never restarted
Init == Constructed(Options, 0) /\ merger = Idle /\ fetcher = Idle
Spec == Init /\ [][Next]_vars

\* restart() may be called at any time; the node is already near MaxHeight and
\* the gap to backfill is short
RestartOptions ==
  {[defaultOptions EXCEPT !.interval = 1000, !.startHeight = MaxHeight - 1,
                          !.maxInsert = 2, !.concurrentQueryLimit = 2]}
InitRestart == Constructed(RestartOptions, MaxHeight - 1) /\ merger = Idle /\ fetcher = Idle
NextRestart == Next \/ Restart
SpecRestart == InitRestart /\ [][NextRestart]_vars

(***************************************************************************)
(* One run of start() in which no call on a collaborator fails and the     *)
(* Scheduler keeps firing                                                  *)
(***************************************************************************)
\* the Scheduler fires, any number of times: this.loopTimes++ only numbers the
\* log lines and is kept at MaxLoopTimes once it has reached it
TickStartLive(t) ==
  /\ timers[t].timer /\ timers[t].callback
  /\ timers[t].pc = "idle"
  /\ loopTimes' = Min(loopTimes + 1, MaxLoopTimes)
  /\ timers' = [timers EXCEPT ![t].pc = "status", ![t].n = Min(loopTimes + 1, MaxLoopTimes),
                                ![t].outcome = ""]
  /\ UNCHANGED <<config, currentPhase, currentQueries, lastBestHeight, lastLoopResult,
                 scheduler, dbOperator, runs, status, log, merger, fetcher>>

\* queryBlockAndTxs throws 'Invalid scan mode': the catch of start()
Throw(r) ==
  /\ ~ValidMode(config)
  /\ runs[r].pc \in {"missQuery", "gapQuery"}
  /\ Catch(r)

\* the steps of start(): every awaited call resolves
BackfillStep ==
  \E r \in Ids :
    \/ Start(r) \/ InitDone(r) \/ MissQueryDone(r) \/ MissInsertDone(r)
    \/ GapStatus(r) \/ GapQueryDone(r) \/ GapInsertDone(r) \/ GapStatus2(r)
    \/ Throw(r)
\* the steps of the ticks: the Scheduler fires and every awaited call resolves
TickStep ==
  \E t \in Ids :
    \/ TickStartLive(t) \/ TickStatus(t) \/ TickQueryDone(t) \/ TickInsertDone(t)

\* start() up to the moment it resolves or rejects; no tick fires before
SpecBackfill == Init /\ [][BackfillStep]_vars /\ WF_vars(BackfillStep)

NextLive == BackfillStep \/ TickStep
SpecLive == Init /\ [][NextLive]_vars /\ WF_vars(BackfillStep) /\ WF_vars(TickStep)

(***************************************************************************)
(* mergeResult on its own, for arbitrary arguments                         *)
(***************************************************************************)
HeightSeqs == UNION {[1..n -> 1..MaxMergeHeight] : n \in 0..MaxMergeLen}
\* a result whose blocks have the heights hs, fetched in loop at
ResultOf(hs, at) ==
  [blocks |-> [k \in 1..Len(hs) |-> Block(hs[k], at)],
   txs |-> [k \in 1..Len(hs) |-> Transactions(hs[k], at)],
   type |-> LOOP]

InitMerge ==
  /\ Constructed({[defaultOptions EXCEPT !.maxInsert = 2]}, 0)
  /\ fetcher = Idle
  /\ \E hs \in HeightSeqs, pre \in 0..(MaxMergeLen + 1), lib \in 0..MaxMergeHeight :
       merger = [pc |-> "call", results |-> ResultOf(hs, 1), preHeightsLength |-> pre,
                 afterHeightsLength |-> Max(Len(hs) - pre, 0), LIBHeight |-> lib,
                 last |-> EmptyResult, lastBest |-> Null, out |-> <<>>]

\* the fields this.lastLoopResult and this.lastBestHeight at the call
SetLast ==
  /\ merger.pc = "call"
  /\ \E hs \in HeightSeqs, best \in {Null} \cup {Num(n) : n \in 1..MaxMergeHeight} :
       merger' = [merger EXCEPT !.pc = "ready", !.last = ResultOf(hs, 0), !.lastBest = best]
  /\ UNCHANGED <<config, currentPhase, currentQueries, lastBestHeight, lastLoopResult,
                 loopTimes, scheduler, dbOperator, runs, timers, status, log, fetcher>>

Merge ==
  /\ merger.pc = "ready"
  /\ merger' = [merger EXCEPT !.pc = "done",
                              !.out = mergeResult(merger.last, merger.results,
                                                  merger.preHeightsLength,
                                                  merger.afterHeightsLength,
                                                  merger.LIBHeight, merger.lastBest)]
  /\ UNCHANGED <<config, currentPhase, currentQueries, lastBestHeight, lastLoopResult,
                 loopTimes, scheduler, dbOperator, runs, timers, status, log, fetcher>>

NextMerge == SetLast \/ Merge
SpecMerge == InitMerge /\ [][NextMerge]_vars

(***************************************************************************)
(* queryAllBlocksAndTxs and queryBlockAndTxsWithBloom on their own: the    *)
(* loop over the groups, each query of a group answered on its own         *)
(***************************************************************************)
FetchOptions ==
  {[defaultOptions EXCEPT !.concurrentQueryLimit = n, !.scanMode = sm,
                          !.listeners = Listeners]
     : n \in 1..MaxLimit, sm \in {"all", "listener"}}

TagLists == {<<>>, <<"A">>, <<"B">>, <<"A", "B">>}
TxTagLists == {<<<<"A">>, <<"B">>>>, <<<<"A", "B">>, <<>>>>}
\* what the node may answer to the query of the height h
Answers(h) ==
  IF config.scanMode = "all" THEN {queryTransactionsByHeight(h, 0)}
  ELSE {NoAnswer} \cup {BloomAnswer(h, tags, txTags) : tags \in TagLists, txTags \in TxTagLists}

InitFetch ==
  /\ Constructed(FetchOptions, 0)
  /\ merger = Idle
  /\ \E m \in 0..MaxFetch :
       fetcher = [pc |-> "call", heights |-> [k \in 1..m |-> k], type |-> LOOP, i |-> 0,
                  outstanding |-> {}, answers |-> <<>>, results |-> <<>>, out |-> <<>>]

\* the indices (1-based) of the group that starts at i
Group(i) ==
  {i + k : k \in 1..Len(heightsLimited(fetcher.heights, i, config))}

\* the value returned once every group is answered
Returned(results) ==
  IF config.scanMode = "all"
  THEN queryAllBlocksAndTxs(fetcher.heights, fetcher.type, results)
  ELSE queryBlockAndTxsWithBloom(fetcher.heights, fetcher.type, config, results)

\* the loop head: the next group is queried in parallel, or the result returned
Loop(i, results) ==
  IF i < Len(fetcher.heights)
  THEN fetcher' = [fetcher EXCEPT !.pc = "await", !.i = i, !.results = results,
                                  !.outstanding = @ \cup Group(i)]
  ELSE fetcher' = [fetcher EXCEPT !.pc = "done", !.i = i, !.results = results,
                                  !.out = Returned(results)]

FetchCall ==
  /\ fetcher.pc = "call"
  /\ Loop(0, <<>>)
  /\ UNCHANGED <<config, currentPhase, currentQueries, lastBestHeight, lastLoopResult,
                 loopTimes, scheduler, dbOperator, runs, timers, status, log, merger>>

\* the node answers one of the queries in flight
FetchAnswer ==
  /\ fetcher.pc \in {"await", "failed"}
  /\ \E k \in fetcher.outstanding : \E ans \in Answers(fetcher.heights[k]) :
       fetcher' = [fetcher EXCEPT !.outstanding = @ \ {k},
                                  !.answers = [j \in DOMAIN @ \cup {k} |->
                                                 IF j = k THEN ans ELSE @[j]]]
  /\ UNCHANGED <<config, currentPhase, currentQueries, lastBestHeight, lastLoopResult,
                 loopTimes, scheduler, dbOperator, runs, timers, status, log, merger>>

\* Promise.all resolves: the answers of the group are kept in the order of
\* the heights, and the loop goes on
FetchContinue ==
  /\ fetcher.pc = "await"
  /\ fetcher.outstanding = {}
  /\ LET n == Len(heightsLimited(fetcher.heights, fetcher.i, config))
         group == [k \in 1..n |-> fetcher.answers[fetcher.i + k]]
     IN Loop(fetcher.i + config.concurrentQueryLimit, fetcher.results \o group)
  /\ UNCHANGED <<config, currentPhase, currentQueries, lastBestHeight, lastLoopResult,
                 loopTimes, scheduler, dbOperator, runs, timers, status, log, merger>>

\* one query of the group fails: Promise.all rejects at once and the call
\* throws, the other queries of the group still in flight
FetchReject ==
  /\ fetcher.pc = "await"
  /\ \E k \in fetcher.outstanding :
       fetcher' = [fetcher EXCEPT !.pc = "failed", !.outstanding = @ \ {k}]
  /\ UNCHANGED <<config, currentPhase, currentQueries, lastBestHeight, lastLoopResult,
                 loopTimes, scheduler, dbOperator, runs, timers, status, log, merger>>

NextFetch == FetchCall \/ FetchAnswer \/ FetchContinue \/ FetchReject
SpecFetch == InitFetch /\ [][NextFetch]_vars

(***************************************************************************)
(* Properties                                                              *)
(***************************************************************************)
\* the events of a log with the operation op
Calls(events, op) == LET Is(e) == e.op = op IN SelectSeq(events, Is)
\* the results the activation r passed to insert in the phase type
InsertsOf(r, type) ==
  LET Is(e) == e.op = "insert" /\ e.arg.type = type IN SelectSeq(log.start[r], Is)
\* how often the height h is among the blocks of the inserts
Occurrences(inserts, h) ==
  Cardinality({<<k, j>> \in (1..Len(inserts)) \X (1..MaxHeight) :
                 /\ j <= Len(inserts[k].arg.blocks)
                 /\ HeightOf(inserts[k].arg.blocks[j]) = h})
Ascending(hs) == \A k \in 1..(Len(hs) - 1) : hs[k] < hs[k + 1]
Count(hs, h) == Cardinality({k \in 1..Len(hs) : hs[k] = h})

\* C1: when queryGapHeight has completed after a non-empty gap, every height
\* from startHeight to the LIB height assigned to currentQueries has been
\* passed to insert exactly once by the GAP chunks (mode all).
GapCoverage ==
  \A r \in Ids :
    (config.scanMode = "all" /\ runs[r].pc = "resolved" /\ InsertsOf(r, GAP) # <<>>)
    => \A h \in config.startHeight..runs[r].currentHeight :
         Occurrences(InsertsOf(r, GAP), h) = 1

\* C2: the result a tick passes to insert in mode all holds every height above
\* currentQueries up to the best height of the tick exactly once.
CompleteWindow ==
  \A t \in Ids :
    (config.scanMode = "all" /\ timers[t].pc = "insert")
    => \A h \in (currentQueries + 1)..timers[t].result.bestHeight :
         Count(Heights(timers[t].result.blocks), h) = 1

\* C4: the blocks of every result a tick of mode all passes to insert, and of
\* the result kept in lastLoopResult, are in strictly ascending height.
Ordering ==
  /\ Ascending(Heights(lastLoopResult.blocks))
  /\ \A t \in Ids :
       (config.scanMode = "all" /\ timers[t].pc = "insert")
       => Ascending(Heights(timers[t].result.blocks))
\* a merged result with a finalized prefix, retained blocks and a fresh suffix
OrderingWitness ==
  \E t \in Ids :
    /\ config.scanMode = "all" /\ timers[t].pc = "insert"
    /\ lastLoopResult.blocks # <<>>
    /\ timers[t].preLen > 0 /\ timers[t].afterLen > 0
    /\ Len(timers[t].result.blocks) > timers[t].preLen + timers[t].afterLen

\* C5: a tick whose status read succeeds is skipped exactly when lastBestHeight
\* is set and the best height grew by at most
\* ceil(interval * minedSpeed * loopCoef / 1000); a skipped tick makes no call
\* and leaves currentQueries, lastBestHeight and lastLoopResult as they were.
Threshold ==
  CHOOSE n \in 0..100 :
    /\ n * 1000 * config.loopCoef.den
         >= config.interval * config.minedSpeed * config.loopCoef.num
    /\ (n - 1) * 1000 * config.loopCoef.den
         < config.interval * config.minedSpeed * config.loopCoef.num
SkipHeuristic ==
  [][\A t \in Ids :
       (/\ timers[t].pc = "status" /\ timers'[t].pc # "status"
        /\ ValidMode(config) /\ timers'[t].outcome # "failed")
       => /\ (timers'[t].outcome = "skipped")
               <=> (/\ lastBestHeight # Null
                    /\ getHeight(status').height - lastBestHeight[1] <= Threshold)
          /\ (config.interval = 4000 /\ config.minedSpeed = 2
                /\ config.loopCoef = [num |-> 6, den |-> 10]) => Threshold = 5
          /\ timers'[t].outcome = "skipped"
               => /\ timers'[t].pc = "idle"
                  /\ UNCHANGED <<currentQueries, lastBestHeight, lastLoopResult, log>>
          /\ timers'[t].outcome # "skipped" => timers'[t].pc = "query"]_vars
\* a tick skipped at a delta of exactly 5 under the default interval
SkipWitness ==
  \E t \in Ids :
    /\ timers[t].outcome = "skipped" /\ timers[t].pc = "idle"
    /\ config.interval = 4000
    /\ lastBestHeight # Null
    /\ getHeight(status).height - lastBestHeight[1] = 5

\* C6: when start() has rejected in INIT, MISSING or GAP, the phase is ERROR,
\* the activation's calls end with exactly one endTimer followed by exactly
\* one destroy, nothing was queried or inserted after them, the timer is off
\* and the rejection is the failure of the await that failed.
BackfillCleanup ==
  \A r \in Ids :
    runs[r].pc = "rejected"
    => LET calls == log.start[r]
           n == Len(calls)
       IN /\ currentPhase = ERROR
          /\ n >= 3
          /\ calls[n - 1].op = "endTimer" /\ calls[n].op = "destroy"
          /\ Len(Calls(calls, "endTimer")) = 1 /\ Len(Calls(calls, "destroy")) = 1
          /\ calls[n - 1].on = scheduler /\ calls[n].on = dbOperator
          /\ ~timers[scheduler].timer
          /\ runs[r].error \in {"init failed", "query failed", "insert failed",
                                "chainStatus failed", "Invalid scan mode"}
          /\ (runs[r].error = "query failed") <=> (calls[n - 2].op = "query")
          /\ runs[r].error = "init failed" => calls[n - 2].op = "init"
          /\ runs[r].error \in {"insert failed", "chainStatus failed"}
               => calls[n - 2].op = "insert"
          /\ runs[r].error = "Invalid scan mode"
               => ~ValidMode(config) /\ calls[n - 2].op = "init"
\* start() rejected in GAP after a chunk had been inserted
BackfillCleanupWitness ==
  \E r \in Ids :
    /\ runs[r].pc = "rejected" /\ runs[r].error = "insert failed"
    /\ InsertsOf(r, GAP) # <<>>

\* C7: once a tick has failed in LOOP, the phase is ERROR, the timer is off
\* and endTimer and destroy have been called.
LoopCleanup ==
  \A t \in Ids :
    timers[t].failed
    => /\ currentPhase = ERROR
       /\ ~timers[t].timer
       /\ \E r \in Ids : /\ Calls(log.start[r], "endTimer") # <<>>
                         /\ Calls(log.start[r], "destroy") # <<>>

\* C9: the phase only changes INIT -> MISSING, MISSING -> GAP, GAP -> LOOP,
\* to ERROR, or to INIT by restart().
PhaseTransitions ==
  [][currentPhase' # currentPhase
       => \/ currentPhase = INIT /\ currentPhase' = MISSING
          \/ currentPhase = MISSING /\ currentPhase' = GAP
          \/ currentPhase = GAP /\ currentPhase' = LOOP
          \/ currentPhase' = ERROR
          \/ currentPhase' = INIT /\ scheduler' # scheduler]_vars

\* the j-th smallest element of the set S of numbers
Nth(S, j) == CHOOSE x \in S : Cardinality({y \in S : y < x}) = j - 1
Range(f) == {f[k] : k \in DOMAIN f}

\* C3: mergeResult returns the fresh result unchanged when the previous result
\* has no blocks; otherwise its blocks are the first finalizedCount fresh
\* blocks, then the previous blocks with libHeight < height <= lastBestHeight
\* in their order, then the remaining fresh blocks; txs is permuted alike, so
\* that blocks[i] and txs[i] belong to the same height.
ReferenceMerge(previous, fresh, finalizedCount, libHeight, lastBest) ==
  LET keep == {k \in 1..Len(previous.blocks) :
                 /\ lastBest # Null
                 /\ libHeight < HeightOf(previous.blocks[k])
                 /\ HeightOf(previous.blocks[k]) <= lastBest[1]}
      n == IF finalizedCount < Len(fresh.blocks) THEN finalizedCount ELSE Len(fresh.blocks)
      total == Len(fresh.blocks) + Cardinality(keep)
      Pick(freshSeq, previousSeq, k) ==
        IF k <= n THEN freshSeq[k]
        ELSE IF k <= n + Cardinality(keep) THEN previousSeq[Nth(keep, k - n)]
        ELSE freshSeq[k - Cardinality(keep)]
  IN [blocks |-> [k \in 1..total |-> Pick(fresh.blocks, previous.blocks, k)],
      txs |-> [k \in 1..total |-> Pick(fresh.txs, previous.txs, k)],
      type |-> fresh.type]
MergeIsReference ==
  merger.pc = "done"
  => /\ merger.last.blocks = <<>> => merger.out = merger.results
     /\ merger.last.blocks # <<>>
          => merger.out = ReferenceMerge(merger.last, merger.results,
                                         merger.preHeightsLength, merger.LIBHeight,
                                         merger.lastBest)
     /\ Len(merger.out.txs) = Len(merger.out.blocks)
     /\ \A k \in 1..Len(merger.out.blocks) :
          \A n \in 1..Len(merger.out.txs[k]) :
            merger.out.txs[k][n].BlockNumber = HeightOf(merger.out.blocks[k])
\* a merge that keeps one previous block and drops another, between a
\* finalized prefix and a fresh suffix
MergeWitness ==
  /\ merger.pc = "done"
  /\ Len(merger.last.blocks) = 2 /\ Len(merger.results.blocks) = 2
  /\ merger.preHeightsLength = 1
  /\ Len(merger.out.blocks) = 3
  /\ merger.out.blocks[2].at = 0

\* C8: never more than concurrentQueryLimit queries are in flight, and the
\* queries of a group are only sent when no query of an earlier group is in
\* flight, in mode all and in mode listener.
BoundedConcurrency ==
  /\ [](fetcher.pc # "off"
          => Cardinality(fetcher.outstanding) <= config.concurrentQueryLimit)
  /\ [][(fetcher.pc # "off" /\ ~(fetcher'.outstanding \subseteq fetcher.outstanding))
          => fetcher.outstanding = {}]_vars
\* a later group of a call, as many queries in flight as the limit allows
BoundedConcurrencyWitness ==
  /\ fetcher.pc = "await"
  /\ fetcher.i > 0
  /\ config.concurrentQueryLimit > 1
  /\ Cardinality(fetcher.outstanding) = config.concurrentQueryLimit

\* C10: in mode listener, a fetched block is in the bucket of a listener tag
\* exactly when its scanTags contain the tag, once, with exactly its
\* transactions whose scanTags contain the tag, in their order; a block or a
\* transaction without a matching tag is in no bucket.
ListenerPartition ==
  (fetcher.pc = "done" /\ config.scanMode = "listener")
  => \A tag \in {config.listeners[k].tag : k \in 1..Len(config.listeners)} :
       LET bucket == fetcher.out.results[tag].blocks
           tagged == {k \in 1..Len(fetcher.heights) :
                        /\ HasBlock(fetcher.answers[k])
                        /\ tag \in Range(fetcher.answers[k].block.scanTags)}
       IN /\ Len(bucket) = Cardinality(tagged)
          /\ \A j \in 1..Len(bucket) :
               LET v == fetcher.answers[Nth(tagged, j)]
                   mine == {n \in 1..Len(v.transactions) :
                              tag \in Range(v.transactions[n].scanTags)}
                   list == bucket[j].transactionList
               IN /\ bucket[j].Header = v.block.Header
                  /\ bucket[j].scanTags = v.block.scanTags
                  /\ Len(list) = Cardinality(mine)
                  /\ \A n \in 1..Len(list) : list[n] = v.transactions[Nth(mine, n)]
\* a block tagged A and B with one transaction tagged A and one tagged B,
\* next to a block without a tag
ListenerPartitionWitness ==
  /\ fetcher.pc = "done" /\ config.scanMode = "listener"
  /\ Len(fetcher.heights) >= 2
  /\ fetcher.answers[1] = BloomAnswer(1, <<"A", "B">>, <<<<"A">>, <<"B">>>>)
  /\ HasBlock(fetcher.answers[2]) /\ fetcher.answers[2].block.scanTags = <<>>

\* the results the ticks of the Scheduler t passed to insert
TickInserts(t) == Calls(log.tick[t], "insert")

\* C11: once queryGapHeight has completed and a tick has inserted at a best
\* height of at least startHeight, the block of height startHeight has been
\* passed to insert by a GAP chunk or by a tick (mode all), also when the gap
\* was empty.
StartHeightInclusive ==
  \A r \in Ids :
    (/\ config.scanMode = "all" /\ runs[r].pc = "resolved"
     /\ timers[r].pc = "idle" /\ timers[r].outcome = "inserted"
     /\ lastBestHeight # Null /\ lastBestHeight[1] >= config.startHeight)
    => Occurrences(InsertsOf(r, GAP) \o TickInserts(r), config.startHeight) >= 1

\* C12: the step that completes queryGapHeight after at least one chunk sets
\* currentQueries to the LIB height and lastBestHeight to the best height of
\* the status it has just read, so that currentQueries <= lastBestHeight.
GapCompletionCursor ==
  [][\A r \in Ids :
       (runs[r].pc = "gapStatus2" /\ runs'[r].pc = "resolved")
       => /\ currentQueries' = getHeight(status').LIBHeight
          /\ lastBestHeight' = Num(getHeight(status').height)
          /\ currentQueries' <= ToNumber(lastBestHeight')]_vars

\* C17: currentQueries never decreases in a run of start() and its ticks.
MonotonicCursor == [][currentQueries' >= currentQueries]_vars

\* the activations of start() and the ticks that are between their first and
\* their last await
ActiveRuns ==
  {r \in Ids : runs[r].pc \in {"init", "missQuery", "missInsert", "gapStatus",
                               "gapQuery", "gapInsert", "gapStatus2"}}
ActiveTicks == {t \in Ids : timers[t].pc \in {"status", "query", "insert"}}

\* C15: at most one activation of start() or tick body is executing at any
\* time, also after restart().
SingleWorker == Cardinality(ActiveRuns) + Cardinality(ActiveTicks) <= 1

\* C13: the calls of queryMissingHeight are query, insert, query, insert, ...;
\* the k-th query asks for the k-th maxInsert entries of missingHeightList in
\* list order and the k-th insert gets their result; while an insert is
\* awaited no further query has been made; the run is past MISSING only when
\* the chunks cover the whole list.
MissingBackfill ==
  \A r \in Ids :
    (ValidMode(config) /\ runs[r].pc \notin {"new", "init", "rejected"})
    => LET calls == log.start[r]
           list == config.missingHeightList
           m == Len(InsertsOf(r, MISSING))
           started == IF runs[r].pc = "missQuery" THEN m + 1 ELSE m
           size(k) == Max(0, Min(config.maxInsert, Len(list) - (k - 1) * config.maxInsert))
       IN /\ Len(calls) >= 2 * started
          /\ \A k \in 1..started :
               /\ calls[2 * k].op = "query"
               /\ Len(calls[2 * k].arg) <= config.maxInsert
               /\ calls[2 * k].arg
                    = [j \in 1..size(k) |-> list[(k - 1) * config.maxInsert + j]]
          /\ \A k \in 1..m :
               /\ calls[2 * k + 1].op = "insert"
               /\ calls[2 * k + 1].arg.type = MISSING
               /\ config.scanMode = "all"
                    => Heights(calls[2 * k + 1].arg.blocks) = calls[2 * k].arg
          /\ runs[r].pc = "missQuery" => Len(calls) = 2 * m + 2
          /\ runs[r].pc = "missInsert" => Len(calls) = 2 * m + 1
          /\ runs[r].pc \notin {"missQuery", "missInsert"}
               => m >= 1 /\ m * config.maxInsert >= Len(list)
\* the list <<5, 3, 8>> backfilled in the chunks <<5, 3>> and <<8>>, GAP started
MissingBackfillWitness ==
  \E r \in Ids :
    /\ runs[r].pc = "gapStatus" /\ currentPhase = GAP
    /\ config.scanMode = "all"
    /\ Len(config.missingHeightList) = 3
    /\ Len(InsertsOf(r, MISSING)) = 2
    /\ Heights(InsertsOf(r, MISSING)[1].arg.blocks) = <<5, 3>>

\* C14: a step of a tick changes currentQueries, lastBestHeight or
\* lastLoopResult only if it is the successful completion of the tick's
\* insert; starting a tick, reading the status, fetching, skipping and failing
\* leave all three as they are, and in LOOP nothing but a tick changes them.
Cursor == <<currentQueries, lastBestHeight, lastLoopResult>>
Committed(t) ==
  /\ timers[t].pc = "insert"
  /\ timers'[t].pc = "idle" /\ timers'[t].outcome = "inserted"
CursorCommit ==
  [][/\ \A t \in Ids :
          (/\ timers[t].pc # "idle" \/ timers'[t].pc # "idle"
           /\ timers'[t] # timers[t]
           /\ ~Committed(t)) => UNCHANGED Cursor
     /\ (currentPhase = LOOP /\ Cursor' # Cursor) => \E t \in Ids : Committed(t)]_vars
\* the insert of the second tick has failed: the cursor is the one the first
\* tick committed
CursorCommitWitness ==
  \E t \in Ids :
    /\ config.scanMode = "all"
    /\ timers[t].pc = "idle" /\ timers[t].outcome = "failed"
    /\ Len(TickInserts(t)) = 2
    /\ TickInserts(t)[2].arg.blocks # <<>>
    /\ lastLoopResult = TickInserts(t)[1].arg
    /\ currentQueries = TickInserts(t)[1].arg.LIBHeight
    /\ lastBestHeight = Num(TickInserts(t)[1].arg.bestHeight)

\* currentQueries when the activation r entered LOOP
LoopEntry(r) ==
  IF InsertsOf(r, GAP) = <<>> THEN config.startHeight ELSE runs[r].currentHeight
\* how often the height h is in the finalized segment (the blocks of a height
\* of at most the insert's LIBHeight) of the inserts
FinalizedCount(inserts, h) ==
  Cardinality({p \in UNION {{<<k, j>> : j \in 1..Len(inserts[k].arg.blocks)}
                               : k \in 1..Len(inserts)} :
                 /\ HeightOf(inserts[p[1]].arg.blocks[p[2]]) = h
                 /\ h <= inserts[p[1]].arg.LIBHeight})

\* C16: in mode all, between ticks none of which has failed, every height
\* above the cursor of LOOP entry and up to currentQueries has been in the
\* finalized segment of exactly one insert of a tick, and no height above
\* currentQueries in any.
FinalizedOnce ==
  \A r \in Ids :
    (/\ config.scanMode = "all" /\ runs[r].pc = "resolved"
     /\ timers[r].pc = "idle" /\ ~timers[r].failed)
    => \A h \in 1..MaxHeight :
         /\ (LoopEntry(r) < h /\ h <= currentQueries)
              => FinalizedCount(TickInserts(r), h) = 1
         /\ h > currentQueries => FinalizedCount(TickInserts(r), h) = 0
\* two ticks have inserted, each with a finalized segment above the cursor of
\* LOOP entry
FinalizedOnceWitness ==
  \E r \in Ids :
    /\ config.scanMode = "all" /\ runs[r].pc = "resolved"
    /\ timers[r].pc = "idle" /\ ~timers[r].failed
    /\ Len(TickInserts(r)) = 2
    /\ LoopEntry(r) < TickInserts(r)[1].arg.LIBHeight
    /\ TickInserts(r)[1].arg.LIBHeight < TickInserts(r)[2].arg.LIBHeight
    /\ currentQueries = TickInserts(r)[2].arg.LIBHeight

\* C19: in the result a tick of mode all passes to insert, every block of a
\* height of at most the result's LIBHeight, and its transactions, were
\* fetched in this tick; a block fetched earlier is above the LIBHeight.
FreshFinalized ==
  \A t \in Ids :
    (config.scanMode = "all" /\ timers[t].pc = "insert")
    => LET result == timers[t].result
       IN \A j \in 1..Len(result.blocks) :
            /\ HeightOf(result.blocks[j]) <= result.LIBHeight
                 => /\ result.blocks[j].at = timers[t].n
                    /\ \A n \in 1..Len(result.txs[j]) : result.txs[j][n].at = timers[t].n
            /\ result.blocks[j].at # timers[t].n
                 => HeightOf(result.blocks[j]) > result.LIBHeight
\* an insert with a freshly fetched finalized block and a block retained from
\* the previous tick
FreshFinalizedWitness ==
  \E t \in Ids :
    /\ config.scanMode = "all" /\ timers[t].pc = "insert"
    /\ \E j \in 1..Len(timers[t].result.blocks) :
         HeightOf(timers[t].result.blocks[j]) <= timers[t].result.LIBHeight
    /\ \E j \in 1..Len(timers[t].result.blocks) :
         timers[t].result.blocks[j].at \notin {0, timers[t].n}

\* C18: in LOOP, with ticks that keep firing and calls that never fail, a
\* height above currentQueries that the node reports as irreversible is
\* eventually at or below currentQueries (it has been inserted as finalized),
\* unless the chain has grown to the highest height of the model.
FinalizedDelivery ==
  \A h \in 1..MaxHeight :
    (/\ currentPhase = LOOP
     /\ getHeight(status).LIBHeight >= h
     /\ currentQueries < h)
    ~> (currentQueries >= h \/ getHeight(status).height = MaxHeight)

\* C20: with a scan mode of 'all' or 'listener', a started run of start()
\* whose calls never fail leaves MISSING and GAP: it resolves in phase LOOP
\* with the callback set and the timer started.
PipelineProgress ==
  \A r \in Ids :
    (ValidMode(config) /\ runs[r].pc # "new")
    ~> (/\ runs[r].pc = "resolved"
        /\ currentPhase = LOOP
        /\ timers[scheduler].callback /\ timers[scheduler].timer)
\* LOOP reached after two chunks of missing heights and two chunks of the gap
PipelineProgressWitness ==
  \E r \in Ids :
    /\ runs[r].pc = "resolved" /\ currentPhase = LOOP
    /\ timers[scheduler].callback /\ timers[scheduler].timer
    /\ Len(InsertsOf(r, MISSING)) = 2
    /\ Len(InsertsOf(r, GAP)) >= 2
====
